---- MODULE Spec2Model ----
(***************************************************************************)
(* A model of example/example.rs of rust-media: the SDL example player.    *)
(*                                                                         *)
(*   - SdlVideoFormat::from_video_track, ExampleVideoRenderer::upload and  *)
(*     upload_image (the format adapter and the output-plane layout);      *)
(*   - ExampleAudioRenderer (the pending-sample buffer, the device         *)
(*     callback) and enqueue_audio_samples;                                *)
(*   - ExampleMediaPlayer (the clock, poll_events) and the loop of main.   *)
(*                                                                         *)
(* Player, Timestamp, the pixel and audio converters and SDL are not part  *)
(* of example.rs; they are modelled by their interfaces.                   *)
(***************************************************************************)
EXTENDS Integers, Sequences, FiniteSets, TLC

VARIABLES
    \* ---- main ----
    pc,                 \* the position of main's thread
    args_len,           \* args.len()
    inited,             \* what main has initialised / created so far
    exit,               \* how main ended ("none" while it runs)
    media_player,       \* Option<ExampleMediaPlayer>
    now,                \* clock_ticks::precise_time_ns()
    target_time,        \* Option: the target_time of the current cycle
    events,             \* SDL's event queue
    clock_op,           \* the last operation that set the clock, and when
    arrived,            \* how many events SDL has queued so far
    \* ---- Player (media::playback) ----
    video_track,        \* Option [pixel_format, width, height]
    audio_track,        \* Option [channels]
    units_left,         \* coded units the container still holds
    next_frame,         \* Option: the decoded frame advance() will hand out
    last_frame_presentation_time,   \* Option: ticks
    frame,              \* Option: the frame advance() returned this cycle
    \* ---- renderers ----
    video_renderer,     \* Option [sdl_pixel_format, sdl_width, height]
    audio_renderer,     \* Option [channels]: the opened AudioDevice's spec
    samples,            \* ExampleAudioRenderer.samples
    out,                \* the device buffer handed to the last callback
    \* ---- the last call of a function under study ----
    video_format,       \* Option: what from_video_track returned
    output_pixels,      \* Option: length of the buffer upload_image was given
    output_stride,      \* the stride upload_image was given
    output_planes,      \* the sub-ranges upload_image made: <<[start, len]>>
    output_strides,     \* the strides upload_image made
    upload_status,      \* "idle" | "converted" | "panic"
    upload_caller,      \* "none" | "upload" (via the texture lock) | "direct"
    audio_call,         \* the last audio operation and the state it found
    blocks,             \* the inputs of the enqueues that returned, in order
    drained,            \* the pending samples the callbacks copied out, in order
    \* ---- history ----
    yielded,            \* frames decode_frame made available, in order
    processed,          \* ticks of the frames advance() returned, in order
    presented,          \* ticks of the frames present() was called for
    enqueued,           \* ticks of the frames enqueue_audio_samples was called for
    cycle               \* what main did in this iteration of the loop, in order

mainVars   == <<pc, args_len, inited, exit, media_player, now, target_time, events,
                clock_op, arrived>>
playerVars == <<video_track, audio_track, units_left, next_frame,
                last_frame_presentation_time, frame>>
rendVars   == <<video_renderer, audio_renderer>>
audioVars  == <<samples, out, audio_call, blocks, drained>>
uploadVars == <<output_pixels, output_stride, output_planes, output_strides,
                upload_status, upload_caller>>
frameVars  == <<yielded, processed, presented, enqueued>>
histVars   == <<frameVars, cycle>>
vars == <<mainVars, playerVars, rendVars, audioVars, video_format, uploadVars,
          histVars>>

(***************************************************************************)
(* Bounds of the model.                                                    *)
(***************************************************************************)
MaxHeight   == 3      \* video heights 0..MaxHeight
MaxWidth    == 3      \* video widths 0..MaxWidth (where not all of u16)
MaxStride   == 5      \* texture strides 0..MaxStride
MaxSlack    == 2      \* buffers up to MaxSlack longer than required
MaxChannels == 3      \* audio channels 1..MaxChannels
MaxCount    == 2      \* samples per channel of one frame 0..MaxCount
MaxBlocks   == 3      \* enqueues in the audio specification
MaxOut      == 4      \* device buffer lengths 0..MaxOut
MaxMissing  == 2      \* args.len() in (ArgsWanted - MaxMissing)..ArgsWanted
MaxUnits    == 2      \* coded units decode_frame reads before the stream ends
MaxTickStep == 2      \* ticks between two frames: 1 or MaxTickStep
MaxLate     == 1      \* time that passes unobserved before a clock read
MaxEvents   == 1      \* events SDL queues during a run
MaxQueued   == 2      \* events SDL has queued when the loop is entered
NsPerTick   == 2      \* nanoseconds per tick of the stream's time base
NsPerMs     == 2      \* nanoseconds per millisecond, scaled down likewise

(***************************************************************************)
(* Option<T>.                                                              *)
(***************************************************************************)
None == [some |-> FALSE]
Some(x) == [some |-> TRUE, v |-> x]

Min(a, b) == IF a < b THEN a ELSE b
Max(a, b) == IF a < b THEN b ELSE a

(***************************************************************************)
(* u16 arithmetic: sdl_width is a u16, and `& !1` is bitwise.              *)
(***************************************************************************)
U16Bits == 16

RECURSIVE Pow2(_)
Pow2(n) == IF n = 0 THEN 1 ELSE 2 * Pow2(n - 1)

U16Max == Pow2(U16Bits) - 1

\* !x on a u16
NotU16(x) == U16Max - x

\* a & b on the low n bits
RECURSIVE BitAnd(_, _, _)
BitAnd(a, b, n) ==
    IF n = 0 THEN 0
    ELSE (a % 2) * (b % 2) + 2 * BitAnd(a \div 2, b \div 2, n - 1)

AndU16(a, b) == BitAnd(a, b, U16Bits)

(***************************************************************************)
(* media::pixelformat::PixelFormat, as SdlVideoFormat::from_video_track    *)
(* matches on it (the match is exhaustive).                                *)
(***************************************************************************)
PixelFormat == {"I420", "NV12", "Indexed", "Rgb24"}

\* a plausible slip: NV12 treated as a packed format
from_video_track_nv12_as_rgb(track) ==
    [media_pixel_format |-> IF track.pixel_format = "I420" THEN "I420" ELSE "Rgb24",
     sdl_pixel_format   |-> IF track.pixel_format = "I420" THEN "IYUV" ELSE "RGB24",
     sdl_width          |-> AndU16(track.width, NotU16(1))]

\* a plausible slip: the width rounded to a multiple of 4 (`& !3`)
from_video_track_and_not3(track) ==
    [media_pixel_format |-> IF track.pixel_format \in {"I420", "NV12"}
                            THEN "I420" ELSE "Rgb24",
     sdl_pixel_format   |-> IF track.pixel_format \in {"I420", "NV12"}
                            THEN "IYUV" ELSE "RGB24",
     sdl_width          |-> AndU16(track.width, NotU16(3))]

from_video_track(track) ==
    LET formats ==
            CASE track.pixel_format \in {"I420", "NV12"} ->
                    <<"I420", "IYUV">>
              [] track.pixel_format \in {"Indexed", "Rgb24"} ->
                    <<"Rgb24", "RGB24">>
    IN  [media_pixel_format |-> formats[1],
         sdl_pixel_format   |-> formats[2],
         sdl_width          |-> AndU16(track.width, NotU16(1))]

(***************************************************************************)
(* upload_image: the output buffer (of length len) split into the planes   *)
(* of the target format.  slice::split_at_mut(mid) panics when mid exceeds *)
(* the slice's length.  The planes and strides are then handed to          *)
(* PixelFormat::convert, which is not part of example.rs: the model        *)
(* records that it was called, and with which planes.                      *)
(***************************************************************************)
Plane(start, len) == [start |-> start, len |-> len]

Panicked == [status |-> "panic", planes |-> <<>>, strides |-> <<>>]

Converted(planes, strides) ==
    [status |-> "converted", planes |-> planes, strides |-> strides]

\* a plausible slip: only the first split is guarded (the second split is
\* clamped to what is left instead of panicking)
upload_image_clamped_split(track, len, stride) ==
    LET height == track.height
        fmt == from_video_track(track).media_pixel_format
        output_chroma_stride == stride \div 2
        chroma_len == len - stride * height
        u_len == Min(output_chroma_stride * (height \div 2), chroma_len)
    IN  CASE fmt = "I420" ->
                IF stride * height > len THEN Panicked
                ELSE Converted(
                       <<Plane(0, stride * height),
                         Plane(stride * height, u_len),
                         Plane(stride * height + u_len, chroma_len - u_len)>>,
                       <<stride, output_chroma_stride, output_chroma_stride>>)
          [] fmt = "Rgb24" -> Converted(<<Plane(0, len)>>, <<stride>>)
          [] OTHER -> Panicked

upload_image(track, len, stride) ==
    LET height == track.height
        fmt == from_video_track(track).media_pixel_format
        output_chroma_stride == stride \div 2
        chroma_len == len - stride * height
        u_len == output_chroma_stride * (height \div 2)
    IN  CASE fmt = "I420" ->
                \* output_pixels.split_at_mut(output_stride * height)
                IF stride * height > len THEN Panicked
                \* output_chroma.split_at_mut(output_chroma_stride * (height / 2))
                ELSE IF u_len > chroma_len THEN Panicked
                ELSE Converted(
                       <<Plane(0, stride * height),
                         Plane(stride * height, u_len),
                         Plane(stride * height + u_len, chroma_len - u_len)>>,
                       <<stride, output_chroma_stride, output_chroma_stride>>)
          [] fmt = "Rgb24" -> Converted(<<Plane(0, len)>>, <<stride>>)
          [] OTHER -> Panicked      \* panic!("SDL can't natively render ...")

(***************************************************************************)
(* ExampleVideoRenderer::upload: the length the locked pixel slice is      *)
(* re-made with (slice::from_raw_mut_buf) before upload_image is called.   *)
(* -1 stands for the panic of the `_` arm.                                 *)
(***************************************************************************)
\* a plausible slip: the usual "3/2 of the luma plane" for 4:2:0
real_length_three_halves(track, stride) ==
    LET height == track.height
        fmt == from_video_track(track).media_pixel_format
    IN  CASE fmt = "I420" -> stride * height + (stride * height) \div 2
          [] fmt = "Rgb24" -> stride * height
          [] OTHER -> -1

real_length(track, stride) ==
    LET height == track.height
        fmt == from_video_track(track).media_pixel_format
    IN  CASE fmt = "I420" ->
                stride * height + 2 * ((stride \div 2) * (height \div 2))
          [] fmt = "Rgb24" -> stride * height
          [] OTHER -> -1

(***************************************************************************)
(* ExampleAudioRenderer::callback.  `dev` is the device buffer as the      *)
(* callback finds it; the result is the buffer and self.samples after it.  *)
(***************************************************************************)
\* a plausible slip: the buffer is not zeroed on underrun
callback_no_zero(pending, dev) ==
    [out     |-> [i \in 1..Len(dev) |->
                    IF i <= Len(pending) THEN pending[i] ELSE dev[i]],
     samples |-> SubSeq(pending, Len(dev) + 1, Len(pending))]

\* a plausible slip: the leftovers are dropped (self.samples left empty)
callback_drop_leftovers(pending, dev) ==
    LET zeroed == IF Len(pending) < Len(dev)
                  THEN [i \in 1..Len(dev) |-> 0] ELSE dev
    IN  [out     |-> [i \in 1..Len(dev) |->
                        IF i <= Len(pending) THEN pending[i] ELSE zeroed[i]],
         samples |-> <<>>]

\* a plausible slip: the samples iterated in place (no mem::replace), the
\* copied ones stay pending
callback_keeps_copied(pending, dev) ==
    LET zeroed == IF Len(pending) < Len(dev)
                  THEN [i \in 1..Len(dev) |-> 0] ELSE dev
    IN  [out     |-> [i \in 1..Len(dev) |->
                        IF i <= Len(pending) THEN pending[i] ELSE zeroed[i]],
         samples |-> pending]

callback(pending, dev) ==
    LET zeroed == IF Len(pending) < Len(dev)
                  THEN [i \in 1..Len(dev) |-> 0] ELSE dev
    IN  [out     |-> [i \in 1..Len(dev) |->
                        IF i <= Len(pending) THEN pending[i] ELSE zeroed[i]],
         samples |-> SubSeq(pending, Len(dev) + 1, Len(pending))]

(***************************************************************************)
(* ExampleAudioRenderer::new: the channel count the device is opened with  *)
(* (open_audio_device(None, false): the obtained spec is the desired one). *)
(***************************************************************************)
ExampleAudioRenderer_new(channels) == [channels |-> Min(channels, 2)]

(***************************************************************************)
(* Float32Planar.convert(&Float32Interleaved, ...): media::audioformat is  *)
(* not part of example.rs.  It writes input[c][i] to output[i*C + c]; it   *)
(* fails when a channel it needs is missing or short.                      *)
(***************************************************************************)
Float32Planar_convert(input, channels, count) ==
    IF Len(input) < channels
       \/ \E c \in 1..channels : Len(input[c]) < count
    THEN None
    ELSE Some([k \in 1..(count * channels) |->
                 input[((k - 1) % channels) + 1][((k - 1) \div channels) + 1]])

(***************************************************************************)
(* enqueue_audio_samples: the result is self.samples after the call, or    *)
(* None when the call panics (input_samples[0] of no channels, or the      *)
(* unwrap of a failed conversion).                                         *)
(***************************************************************************)
\* a plausible slip: every input channel interleaved (no take(2), no cap)
enqueue_audio_samples_uncapped(device, pending, input_samples) ==
    LET channels == Len(input_samples)
        count == IF input_samples = <<>> THEN 0 ELSE Len(input_samples[1])
        conv == Float32Planar_convert(input_samples, channels, count)
    IN  IF input_samples = <<>> \/ ~conv.some THEN None
        ELSE Some(pending \o conv.v)

\* a plausible slip: output_index left out (resize(output_length) and the
\* block written from the start), the pending samples are lost
enqueue_audio_samples_from_start(device, pending, input_samples) ==
    LET channels == device.channels
        taken == SubSeq(input_samples, 1, Min(2, Len(input_samples)))
        output_channels == Min(channels, 2)
    IN  IF taken = <<>> THEN None
        ELSE LET input_sample_count == Len(taken[1])
                 conv == Float32Planar_convert(taken, output_channels,
                                               input_sample_count)
             IN  IF ~conv.some THEN None ELSE Some(conv.v)

enqueue_audio_samples(device, pending, input_samples) ==
    LET channels == device.channels
        taken == SubSeq(input_samples, 1, Min(2, Len(input_samples)))
        output_channels == Min(channels, 2)
        output_index == Len(pending)
    IN  IF taken = <<>> THEN None           \* input_samples[0]: out of bounds
        ELSE LET input_sample_count == Len(taken[1])
                 output_length == input_sample_count * output_channels
                 resized == pending \o [k \in 1..output_length |-> 0]
                 conv == Float32Planar_convert(taken, output_channels,
                                               input_sample_count)
             IN  IF ~conv.some THEN None    \* .unwrap() of an Err
                 ELSE Some(SubSeq(resized, 1, output_index) \o conv.v)

(***************************************************************************)
(* States in which nothing has run yet.                                    *)
(***************************************************************************)
NoCall == [op |-> "none", before |-> <<>>, input |-> <<>>, dev |-> <<>>,
           status |-> "none"]

MainIdle ==
    /\ pc = "idle" /\ args_len = 0 /\ inited = {} /\ exit = "none"
    /\ media_player = None /\ now = 0 /\ target_time = None /\ events = <<>>
    /\ clock_op = [op |-> "none", ticks |-> 0, at |-> 0] /\ arrived = 0
    /\ units_left = 0 /\ next_frame = None
    /\ last_frame_presentation_time = None /\ frame = None
    /\ video_renderer = None

HistIdle ==
    /\ yielded = <<>> /\ processed = <<>> /\ presented = <<>> /\ enqueued = <<>>
    /\ cycle = <<>>

UploadIdle ==
    /\ output_pixels = None /\ output_stride = 0 /\ output_planes = <<>>
    /\ output_strides = <<>> /\ upload_status = "idle" /\ upload_caller = "none"

AudioIdle ==
    /\ samples = <<>> /\ out = <<>> /\ audio_call = NoCall
    /\ blocks = <<>> /\ drained = <<>>

VideoTrack(f, w, h) == [pixel_format |-> f, width |-> w, height |-> h]

(***************************************************************************)
(* SpecFormat: SdlVideoFormat::from_video_track on every pixel format and  *)
(* every u16 width.                                                        *)
(***************************************************************************)
InitFormat ==
    /\ MainIdle /\ HistIdle /\ UploadIdle /\ AudioIdle
    /\ audio_track = None /\ audio_renderer = None
    /\ video_track \in {Some(VideoTrack(f, w, MaxHeight)) :
                            f \in PixelFormat, w \in 0..U16Max}
    /\ video_format = None

CallFromVideoTrack ==
    /\ pc = "idle"
    /\ video_format = None
    /\ video_format' = Some(from_video_track(video_track.v))
    /\ UNCHANGED <<mainVars, playerVars, rendVars, audioVars, uploadVars, histVars>>

NextFormat == CallFromVideoTrack

SpecFormat == InitFormat /\ [][NextFormat]_vars

(***************************************************************************)
(* SpecVideo: upload (as the texture lock calls it) and upload_image (on   *)
(* any buffer length) for small tracks, strides and buffers.               *)
(***************************************************************************)
InitVideo ==
    /\ MainIdle /\ HistIdle /\ UploadIdle /\ AudioIdle
    /\ audio_track = None /\ audio_renderer = None
    /\ video_track \in {Some(VideoTrack(f, w, h)) :
                            f \in PixelFormat, w \in 0..MaxWidth, h \in 0..MaxHeight}
    /\ video_format = None

\* the effect of one call of upload_image on the variables that record it
DoUploadImage(caller, track, len, stride) ==
    LET r == upload_image(track, len, stride)
    IN  /\ output_pixels' = Some(len)
        /\ output_stride' = stride
        /\ output_planes' = r.planes
        /\ output_strides' = r.strides
        /\ upload_status' = r.status
        /\ upload_caller' = caller

\* the effect of one call of upload (texture.with_lock hands out the stride)
DoUpload(track, stride) ==
    IF real_length(track, stride) < 0
    THEN /\ output_pixels' = None
         /\ output_stride' = stride
         /\ output_planes' = <<>>
         /\ output_strides' = <<>>
         /\ upload_status' = "panic"
         /\ upload_caller' = "upload"
    ELSE DoUploadImage("upload", track, real_length(track, stride), stride)

CallUpload ==
    /\ pc = "idle"
    /\ upload_status = "idle"
    /\ \E stride \in 0..MaxStride : DoUpload(video_track.v, stride)
    /\ UNCHANGED <<mainVars, playerVars, rendVars, audioVars, video_format, histVars>>

CallUploadImage ==
    /\ pc = "idle"
    /\ upload_status = "idle"
    /\ \E stride \in 0..MaxStride :
         \E len \in 0..(real_length(video_track.v, stride) + MaxSlack) :
            DoUploadImage("direct", video_track.v, len, stride)
    /\ UNCHANGED <<mainVars, playerVars, rendVars, audioVars, video_format, histVars>>

NextVideo == CallUpload \/ CallUploadImage

SpecVideo == InitVideo /\ [][NextVideo]_vars

(***************************************************************************)
(* SpecAudio: the device callback and enqueue_audio_samples on the         *)
(* pending-sample buffer, in any order.  The samples of an enqueued block  *)
(* are labelled by block, channel and index (all non-zero), so that a      *)
(* lost, repeated or misplaced sample shows; the device buffer holds stale *)
(* (negative) values when the callback is entered.                         *)
(***************************************************************************)
Sample(block, c, i) == block * 100 + c * 10 + i

Stale(i) == 0 - i

Planar(block, channels, count) ==
    [c \in 1..channels |-> [i \in 1..count |-> Sample(block, c, i)]]

InitAudio ==
    /\ MainIdle /\ HistIdle /\ UploadIdle /\ AudioIdle
    /\ video_track = None /\ video_format = None
    /\ audio_track \in {Some([channels |-> c]) : c \in 1..MaxChannels}
    /\ audio_renderer = Some(ExampleAudioRenderer_new(audio_track.v.channels))

\* one call of enqueue_audio_samples(device, input) on the shared buffer
DoEnqueue(input) ==
    LET r == enqueue_audio_samples(audio_renderer.v, samples, input)
    IN  /\ samples' = IF r.some THEN r.v ELSE samples
        /\ audio_call' = [op |-> "enqueue", before |-> samples, input |-> input,
                          dev |-> <<>>,
                          status |-> IF r.some THEN "ok" ELSE "panic"]
        /\ out' = out

\* one invocation of the callback by the device, on a buffer of length len
DoCallback(len) ==
    LET dev == [i \in 1..len |-> Stale(i)]
        r == callback(samples, dev)
    IN  /\ samples' = r.samples
        /\ out' = r.out
        /\ audio_call' = [op |-> "callback", before |-> samples, input |-> <<>>,
                          dev |-> dev, status |-> "ok"]

CallEnqueue ==
    /\ pc = "idle"
    /\ audio_call.status # "panic"
    /\ Len(enqueued) < MaxBlocks
    /\ \E k \in 0..MaxChannels, n \in 0..MaxCount :
          DoEnqueue(Planar(Len(enqueued) + 1, k, n))
    /\ enqueued' = Append(enqueued, Len(enqueued) + 1)
    /\ UNCHANGED <<blocks, drained>>
    /\ UNCHANGED <<mainVars, playerVars, rendVars, video_format, uploadVars,
                   yielded, processed, presented, cycle>>

CallCallback ==
    /\ pc = "idle"
    /\ audio_call.status # "panic"
    /\ \E len \in 0..MaxOut : DoCallback(len)
    /\ UNCHANGED <<blocks, drained>>
    /\ UNCHANGED <<mainVars, playerVars, rendVars, video_format, uploadVars, histVars>>

NextAudio == CallEnqueue \/ CallCallback

SpecAudio == InitAudio /\ [][NextAudio]_vars

(***************************************************************************)
(* SpecFifo: the presentation loop (the producer: enqueue_audio_samples,   *)
(* under device.lock()) and the audio thread (the consumer: callback,      *)
(* which SDL runs with the device locked) on the pending buffer, in any    *)
(* order, with the whole history kept: the blocks enqueued and the pending *)
(* samples the callbacks wrote to the device.  The blocks have the track's *)
(* channels, as the frames of main have.                                   *)
(***************************************************************************)
Produce ==
    /\ pc = "idle"
    /\ Len(blocks) < MaxBlocks
    /\ \E n \in 0..MaxCount :
          LET input == Planar(Len(blocks) + 1, audio_track.v.channels, n)
              r == enqueue_audio_samples(audio_renderer.v, samples, input)
          IN  /\ r.some
              /\ samples' = r.v
              /\ blocks' = Append(blocks, input)
    /\ UNCHANGED <<out, audio_call, drained>>
    /\ UNCHANGED <<mainVars, playerVars, rendVars, video_format, uploadVars, histVars>>

Consume ==
    /\ pc = "idle"
    /\ \E len \in 0..MaxOut :
          LET dev == [i \in 1..len |-> Stale(i)]
              r == callback(samples, dev)
          IN  /\ samples' = r.samples
              /\ out' = r.out
              /\ drained' = drained \o SubSeq(r.out, 1, Min(len, Len(samples)))
    /\ UNCHANGED <<audio_call, blocks>>
    /\ UNCHANGED <<mainVars, playerVars, rendVars, video_format, uploadVars, histVars>>

NextFifo == Produce \/ Consume

SpecFifo == InitAudio /\ [][NextFifo]_vars

(***************************************************************************)
(* The clock: ExampleMediaPlayer.  `t` is precise_time_ns() at the call.   *)
(***************************************************************************)
ExampleMediaPlayer_new(t) ==
    [playback_start_ticks |-> 0, playback_start_wallclock_time |-> t]

\* a plausible slip: the reference tick is moved, the reference time is not
resync_keeps_wallclock(self, ticks, t) ==
    [playback_start_ticks |-> ticks,
     playback_start_wallclock_time |-> self.playback_start_wallclock_time]

resync(self, ticks, t) ==
    [playback_start_ticks |-> ticks, playback_start_wallclock_time |-> t]

\* Timestamp::duration() (media::timing is not part of example.rs): ticks of
\* the stream's time base as nanoseconds
duration(ticks) == ticks * NsPerTick

\* main's target_time for the frame whose presentation time is `ticks`
TargetTime(self, ticks) ==
    self.playback_start_wallclock_time
        + duration(ticks - self.playback_start_ticks)

(***************************************************************************)
(* clock_ticks::precise_time_ns() is monotonic.  `now` is the time of the  *)
(* last step that took time or read the clock (new, the creation of the    *)
(* window and the audio device, the sleep of main, resync); the next one   *)
(* happens at a time in Elapse(now).                                       *)
(***************************************************************************)
Elapse(t) == t..(t + MaxLate)

(***************************************************************************)
(* main, up to the loop.                                                   *)
(***************************************************************************)
\* the arguments main reads: the program's name, the path, the mime type
\* (arguments after these are never read)
ArgsWanted == 3

\* a plausible slip: only the program name and one argument are required
TooFewArgs_two(n) == n < ArgsWanted - 1

TooFewArgs(n) == n < ArgsWanted

EventKinds == {"Quit", "Escape", "Resized", "Other"}

InitMain ==
    /\ pc = "start" /\ exit = "none" /\ inited = {}
    /\ args_len \in (ArgsWanted - MaxMissing)..ArgsWanted
    /\ media_player = None /\ now = 0 /\ target_time = None /\ events = <<>>
    /\ clock_op = [op |-> "none", ticks |-> 0, at |-> 0] /\ arrived = 0
    /\ video_track \in {None} \cup
           {Some(VideoTrack(f, MaxWidth, MaxHeight)) : f \in {"NV12", "Rgb24"}}
    /\ audio_track \in {None, Some([channels |-> MaxChannels])}
    /\ units_left = MaxUnits
    /\ next_frame = None /\ last_frame_presentation_time = None /\ frame = None
    /\ video_renderer = None /\ audio_renderer = None
    /\ video_format = None
    /\ HistIdle /\ UploadIdle /\ AudioIdle

Stop(how) == pc' = "done" /\ exit' = how

\* the record of the current iteration: decode_frame starts a new one
Did(op) == cycle' = Append(cycle, op)

\* lines 295-299: too few arguments
Usage ==
    /\ pc = "start"
    /\ TooFewArgs(args_len)
    /\ inited' = inited \cup {"usage"}
    /\ Stop("usage")
    /\ UNCHANGED <<args_len, media_player, now, target_time, events, clock_op, arrived,
                   playerVars, rendVars, audioVars, video_format, uploadVars,
                   histVars>>

\* lines 301-304: sdl2::init, File::open(..).unwrap(), Player::new
Setup ==
    /\ pc = "start"
    /\ ~TooFewArgs(args_len)
    /\ \/ /\ inited' = inited \cup {"sdl", "file", "player"}
          /\ pc' = "new"
          /\ exit' = exit
       \/ /\ inited' = inited \cup {"sdl"}       \* the file cannot be opened
          /\ Stop("panic_open")
    /\ UNCHANGED <<args_len, media_player, now, target_time, events, clock_op, arrived,
                   playerVars, rendVars, audioVars, video_format, uploadVars,
                   histVars>>

\* line 305: ExampleMediaPlayer::new()
NewMediaPlayer ==
    /\ pc = "new"
    /\ now' \in Elapse(now)
    /\ media_player' = Some(ExampleMediaPlayer_new(now'))
    /\ clock_op' = [op |-> "new", ticks |-> 0, at |-> now']
    /\ inited' = inited \cup {"media_player"}
    /\ pc' = "renderers"
    /\ UNCHANGED <<args_len, exit, target_time, events, arrived,
                   playerVars, rendVars, audioVars, video_format, uploadVars,
                   histVars>>

\* lines 307-334: the window and texture of a video track, the audio device
\* of an audio track
CreateRenderers ==
    /\ pc = "renderers"
    /\ video_renderer' =
          IF video_track.some
          THEN LET video_format_ == from_video_track(video_track.v)
               IN  Some([sdl_pixel_format |-> video_format_.sdl_pixel_format,
                         sdl_width |-> video_format_.sdl_width,
                         height |-> video_track.v.height])
          ELSE None
    /\ audio_renderer' =
          IF audio_track.some
          THEN Some(ExampleAudioRenderer_new(audio_track.v.channels))
          ELSE None
    /\ inited' = inited
                   \cup (IF video_track.some THEN {"window", "texture"} ELSE {})
                   \cup (IF audio_track.some THEN {"audio_device"} ELSE {})
    /\ now' \in Elapse(now)
    /\ pc' = "decode"
    /\ UNCHANGED <<args_len, exit, media_player, target_time, events, clock_op, arrived,
                   playerVars, audioVars, video_format, uploadVars, histVars>>

(***************************************************************************)
(* Player (media::playback is not part of example.rs).  decode_frame       *)
(* fails (the stream has ended, or a decode error), or succeeds and makes  *)
(* the next frame available, or succeeds without a displayable frame.  A   *)
(* frame carries its presentation time and, for each track the file has,   *)
(* optionally a payload.                                                   *)
(***************************************************************************)
LastTicks == IF yielded = <<>> THEN 0 - 1 ELSE yielded[Len(yielded)].ticks

NewFrames ==
    {[ticks |-> t, video_frame |-> v, audio_samples |-> a] :
        t \in {LastTicks + 1, LastTicks + MaxTickStep},
        v \in {b \in BOOLEAN : b => video_track.some},
        a \in {None} \cup
              (IF audio_track.some
               THEN {Some(Planar(Len(yielded) + 1, audio_track.v.channels, 1))}
               ELSE {})}

\* line 337: player.decode_frame()
Decode ==
    /\ pc = "decode"
    /\ \/ /\ Stop("decode_err")
          /\ cycle' = <<"decode_err">>
          /\ UNCHANGED <<units_left, next_frame, yielded>>
       \/ /\ units_left > 0
          /\ \E f \in NewFrames :
                /\ next_frame' = Some(f)
                /\ yielded' = Append(yielded, f)
          /\ units_left' = units_left - 1
          /\ cycle' = <<"decode_ok">>
          /\ pc' = "target" /\ exit' = exit
       \/ /\ units_left > 0
          /\ units_left' = units_left - 1
          /\ cycle' = <<"decode_ok">>
          /\ pc' = "target" /\ exit' = exit
          /\ UNCHANGED <<next_frame, yielded>>
    /\ UNCHANGED <<args_len, inited, media_player, now, target_time, events, clock_op, arrived,
                   video_track, audio_track, last_frame_presentation_time, frame,
                   rendVars, audioVars, video_format, uploadVars,
                   processed, presented, enqueued>>

\* lines 341-344: next_frame_presentation_time().unwrap() and target_time
Target ==
    /\ pc = "target"
    /\ IF next_frame.some
       THEN /\ target_time' = Some(TargetTime(media_player.v, next_frame.v.ticks))
            /\ Did("target")
            /\ pc' = "sleep" /\ exit' = exit
       ELSE /\ Stop("panic_no_next_frame")         \* unwrap() of None
            /\ Did("panic")
            /\ target_time' = target_time
    /\ UNCHANGED <<args_len, inited, media_player, now, events, clock_op, arrived,
                   playerVars, rendVars, audioVars, video_format, uploadVars,
                   frameVars>>

\* std::old_io::timer::sleep(d) takes d in whole milliseconds
\* (Duration::num_milliseconds truncates), returns at once when that is zero
\* or negative and otherwise blocks the thread at least that long
SleepFor(d) == Max(0, d \div NsPerMs) * NsPerMs

\* a plausible slip: the operands exchanged (now - target_time), no wait for
\* a frame that is not due yet
Sleep_exchanged ==
    /\ pc = "sleep"
    /\ now' \in Elapse(now + SleepFor(now - target_time.v))
    /\ Did("sleep")
    /\ pc' = "advance"
    /\ UNCHANGED <<args_len, inited, exit, media_player, target_time, events,
                   clock_op, arrived, playerVars, rendVars, audioVars, video_format,
                   uploadVars, frameVars>>

\* line 345: timer::sleep(target_time - precise_time_ns())
Sleep ==
    /\ pc = "sleep"
    /\ now' \in Elapse(now + SleepFor(target_time.v - now))
    /\ Did("sleep")
    /\ pc' = "advance"
    /\ UNCHANGED <<args_len, inited, exit, media_player, target_time, events,
                   clock_op, arrived, playerVars, rendVars, audioVars, video_format,
                   uploadVars, frameVars>>

\* a plausible slip: `continue` for `break`, the next unit is tried
Advance_retry ==
    /\ pc = "advance"
    /\ \/ /\ frame' = next_frame
          /\ next_frame' = None
          /\ last_frame_presentation_time' = Some(next_frame.v.ticks)
          /\ processed' = Append(processed, next_frame.v.ticks)
          /\ Did("advance_ok")
          /\ pc' = "present" /\ exit' = exit
       \/ /\ pc' = "decode" /\ exit' = exit
          /\ Did("advance_err")
          /\ UNCHANGED <<frame, next_frame, last_frame_presentation_time, processed>>
    /\ UNCHANGED <<args_len, inited, media_player, now, target_time, events, clock_op, arrived,
                   video_track, audio_track, units_left,
                   rendVars, audioVars, video_format, uploadVars,
                   yielded, presented, enqueued>>

\* lines 347-350: player.advance()
Advance ==
    /\ pc = "advance"
    /\ \/ /\ frame' = next_frame
          /\ next_frame' = None
          /\ last_frame_presentation_time' = Some(next_frame.v.ticks)
          /\ processed' = Append(processed, next_frame.v.ticks)
          /\ Did("advance_ok")
          /\ pc' = "present" /\ exit' = exit
       \/ /\ Stop("advance_err")
          /\ Did("advance_err")
          /\ UNCHANGED <<frame, next_frame, last_frame_presentation_time, processed>>
    /\ UNCHANGED <<args_len, inited, media_player, now, target_time, events, clock_op, arrived,
                   video_track, audio_track, units_left,
                   rendVars, audioVars, video_format, uploadVars,
                   yielded, presented, enqueued>>

\* the pitch SDL gives the streaming texture (SDL is not part of example.rs)
TexturePitch(renderer) ==
    IF renderer.sdl_pixel_format = "IYUV" THEN renderer.sdl_width
                                           ELSE 3 * renderer.sdl_width

\* a plausible slip: `else if`, a frame that was presented is not enqueued
Present_else_if ==
    /\ pc = "present"
    /\ IF video_renderer.some
       THEN IF frame.v.video_frame
            THEN /\ DoUpload(video_track.v, TexturePitch(video_renderer.v))
                 /\ presented' = Append(presented, frame.v.ticks)
                 /\ Did("present")
                 /\ pc' = "poll" /\ exit' = exit
            ELSE /\ Stop("panic_no_video")
                 /\ Did("panic")
                 /\ UNCHANGED <<uploadVars, presented>>
       ELSE /\ pc' = "enqueue" /\ exit' = exit
            /\ UNCHANGED <<uploadVars, presented, cycle>>
    /\ UNCHANGED <<args_len, inited, media_player, now, target_time, events, clock_op, arrived,
                   playerVars, rendVars, audioVars, video_format,
                   yielded, processed, enqueued>>

\* lines 352-354: video_renderer.present(frame.video_frame.unwrap(), ..)
Present ==
    /\ pc = "present"
    /\ IF video_renderer.some
       THEN IF frame.v.video_frame
            THEN /\ DoUpload(video_track.v, TexturePitch(video_renderer.v))
                 /\ presented' = Append(presented, frame.v.ticks)
                 /\ Did("present")
                 /\ IF upload_status' = "panic"
                    THEN Stop("panic_upload")
                    ELSE pc' = "enqueue" /\ exit' = exit
            ELSE /\ Stop("panic_no_video")      \* unwrap() of None
                 /\ Did("panic")
                 /\ UNCHANGED <<uploadVars, presented>>
       ELSE /\ pc' = "enqueue" /\ exit' = exit
            /\ UNCHANGED <<uploadVars, presented, cycle>>
    /\ UNCHANGED <<args_len, inited, media_player, now, target_time, events, clock_op, arrived,
                   playerVars, rendVars, audioVars, video_format,
                   yielded, processed, enqueued>>

\* lines 355-357: enqueue_audio_samples(audio_renderer,
\*                                      frame.audio_samples.unwrap())
Enqueue ==
    /\ pc = "enqueue"
    /\ IF audio_renderer.some
       THEN IF frame.v.audio_samples.some
            THEN /\ DoEnqueue(frame.v.audio_samples.v)
                 /\ UNCHANGED <<blocks, drained>>
                 /\ enqueued' = Append(enqueued, frame.v.ticks)
                 /\ Did("enqueue")
                 /\ IF audio_call'.status = "panic"
                    THEN Stop("panic_enqueue")
                    ELSE pc' = "poll" /\ exit' = exit
            ELSE /\ Stop("panic_no_audio")      \* unwrap() of None
                 /\ Did("panic")
                 /\ UNCHANGED <<audioVars, enqueued>>
       ELSE /\ pc' = "poll" /\ exit' = exit
            /\ UNCHANGED <<audioVars, enqueued, cycle>>
    /\ UNCHANGED <<args_len, inited, media_player, now, target_time, events, clock_op, arrived,
                   playerVars, rendVars, video_format, uploadVars,
                   yielded, processed, presented>>

(***************************************************************************)
(* poll_events (lines 65-90), one event::poll_event() at a time, and the   *)
(* `if !poll_events() { break }` of main (lines 359-361).                  *)
(***************************************************************************)
\* Event::None => break; poll_events returns true and the loop goes on
PollNone ==
    /\ pc = "poll"
    /\ events = <<>>
    /\ Did("None")
    /\ pc' = "decode"
    /\ UNCHANGED <<args_len, inited, exit, media_player, now, target_time, events,
                   clock_op, arrived, playerVars, rendVars, audioVars, video_format,
                   uploadVars, frameVars>>

\* a plausible slip: `break` for `return false`, poll_events returns true
PollQuit_break ==
    /\ pc = "poll"
    /\ events # <<>>
    /\ Head(events) \in {"Quit", "Escape"}
    /\ events' = Tail(events)
    /\ Did(Head(events))
    /\ pc' = "decode" /\ exit' = exit
    /\ UNCHANGED <<args_len, inited, media_player, now, target_time, clock_op,
                   arrived, playerVars, rendVars, audioVars, video_format,
                   uploadVars, frameVars>>

\* Event::Quit | Event::KeyDown(Escape) => return false; main breaks
PollQuit ==
    /\ pc = "poll"
    /\ events # <<>>
    /\ Head(events) \in {"Quit", "Escape"}
    /\ events' = Tail(events)
    /\ Did(Head(events))
    /\ Stop("quit")
    /\ UNCHANGED <<args_len, inited, media_player, now, target_time, clock_op,
                   arrived, playerVars, rendVars, audioVars, video_format,
                   uploadVars, frameVars>>

\* a plausible slip: unwrap_or(0) for `if let Some`, a resync to tick 0
\* when the player has no last frame
PollResized_or_zero ==
    /\ pc = "poll"
    /\ events # <<>>
    /\ Head(events) = "Resized"
    /\ events' = Tail(events)
    /\ now' \in Elapse(now)
    /\ LET ticks == IF last_frame_presentation_time.some
                    THEN last_frame_presentation_time.v ELSE 0
       IN  /\ media_player' = Some(resync(media_player.v, ticks, now'))
           /\ clock_op' = [op |-> "resync", ticks |-> ticks, at |-> now']
    /\ Did("Resized")
    /\ UNCHANGED <<pc, args_len, inited, exit, target_time, arrived,
                   playerVars, rendVars, audioVars, video_format, uploadVars,
                   frameVars>>

\* Event::Window(Resized): resync to the last frame's time, if there is one
PollResized ==
    /\ pc = "poll"
    /\ events # <<>>
    /\ Head(events) = "Resized"
    /\ events' = Tail(events)
    /\ IF last_frame_presentation_time.some
       THEN /\ now' \in Elapse(now)
            /\ media_player' =
                 Some(resync(media_player.v, last_frame_presentation_time.v, now'))
            /\ clock_op' = [op |-> "resync",
                            ticks |-> last_frame_presentation_time.v, at |-> now']
       ELSE UNCHANGED <<media_player, clock_op, now>>
    /\ Did("Resized")
    /\ UNCHANGED <<pc, args_len, inited, exit, target_time, arrived,
                   playerVars, rendVars, audioVars, video_format, uploadVars,
                   frameVars>>

\* a plausible slip: `match` without the `loop`, poll_events returns true
\* after one event
PollOther_returns ==
    /\ pc = "poll"
    /\ events # <<>>
    /\ Head(events) = "Other"
    /\ events' = Tail(events)
    /\ Did("Other")
    /\ pc' = "decode"
    /\ UNCHANGED <<args_len, inited, exit, media_player, now, target_time,
                   clock_op, arrived, playerVars, rendVars, audioVars,
                   video_format, uploadVars, frameVars>>

\* any other event
PollOther ==
    /\ pc = "poll"
    /\ events # <<>>
    /\ Head(events) = "Other"
    /\ events' = Tail(events)
    /\ Did("Other")
    /\ UNCHANGED <<pc, args_len, inited, exit, media_player, now, target_time,
                   clock_op, arrived, playerVars, rendVars, audioVars,
                   video_format, uploadVars, frameVars>>

\* lines 336-362: the loop
Loop ==
    \/ Decode \/ Target \/ Sleep \/ Advance \/ Present \/ Enqueue
    \/ PollNone \/ PollQuit \/ PollResized \/ PollOther

MainThread ==
    \/ Usage \/ Setup \/ NewMediaPlayer \/ CreateRenderers
    \/ Loop

(***************************************************************************)
(* The environment of main: SDL queues an event.  The audio device's       *)
(* thread is in SpecAudio, where the callback runs between the enqueues in *)
(* every order: main only appends to the pending samples and never reads   *)
(* them.                                                                   *)
(***************************************************************************)
EventArrives ==
    /\ pc \notin {"idle", "start", "done"}
    /\ arrived < MaxEvents
    /\ arrived' = arrived + 1
    /\ \E e \in EventKinds : events' = Append(events, e)
    /\ UNCHANGED <<pc, args_len, inited, exit, media_player, now, target_time,
                   clock_op, playerVars, rendVars, audioVars, video_format,
                   uploadVars, histVars>>

Next == MainThread \/ EventArrives

Spec == InitMain /\ [][Next]_vars

(***************************************************************************)
(* SpecLoop: main on a file with a video and an audio track, entering the  *)
(* loop with several events in SDL's queue (the window's creation and the  *)
(* user queue events before the first poll_events; nothing reads the queue *)
(* before that).                                                           *)
(***************************************************************************)
Queues(n) == UNION {[1..k -> EventKinds] : k \in 1..n}

InitLoop ==
    /\ InitMain
    /\ args_len = ArgsWanted
    /\ video_track.some /\ audio_track.some

EventsQueued ==
    /\ pc = "decode"
    /\ cycle = <<>>
    /\ arrived = 0
    /\ events' \in Queues(MaxQueued)
    /\ arrived' = Len(events')
    /\ UNCHANGED <<pc, args_len, inited, exit, media_player, now, target_time,
                   clock_op, playerVars, rendVars, audioVars, video_format,
                   uploadVars, histVars>>

NextLoop ==
    \/ Setup \/ NewMediaPlayer \/ CreateRenderers
    \/ EventsQueued
    \/ Loop

SpecLoop == InitLoop /\ [][NextLoop]_vars

(***************************************************************************)
(* SpecPoll: poll_events on any queue of up to MaxQueued events, with any  *)
(* clock and any answer of player.last_frame_presentation_time().          *)
(* clock_op holds the clock poll_events is entered with (op "given").      *)
(***************************************************************************)
InitPoll ==
    /\ pc = "poll" /\ exit = "none" /\ inited = {} /\ args_len = ArgsWanted
    /\ events \in {<<>>} \cup Queues(MaxQueued)
    /\ arrived = Len(events)
    /\ last_frame_presentation_time \in {None} \cup {Some(t) : t \in 0..MaxUnits}
    /\ \E ticks \in 0..MaxUnits, t \in 0..MaxLate :
          /\ media_player = Some([playback_start_ticks |-> ticks,
                                  playback_start_wallclock_time |-> t])
          /\ clock_op = [op |-> "given", ticks |-> ticks, at |-> t]
          /\ now \in Elapse(t)
    /\ target_time = None
    /\ video_track = None /\ audio_track = None /\ units_left = 0
    /\ next_frame = None /\ frame = None
    /\ video_renderer = None /\ audio_renderer = None /\ video_format = None
    /\ HistIdle /\ UploadIdle /\ AudioIdle

NextPoll == PollNone \/ PollQuit \/ PollResized \/ PollOther

SpecPoll == InitPoll /\ [][NextPoll]_vars

(***************************************************************************)
(* Properties of the audio renderer (checked under SpecAudio).             *)
(***************************************************************************)
CallbackRan == audio_call.op = "callback"
PendingBefore == Len(audio_call.before)
OutLen == Len(audio_call.dev)

\* C2: audio callback underrun.  After a callback on a device buffer of
\* length L that found P < L pending samples, out[i] is the i-th pending
\* sample for i < P, out[i] = 0 for P <= i < L, the pending buffer is empty
\* and the callback has not failed.
C2_Underrun ==
    (CallbackRan /\ PendingBefore < OutLen) =>
        /\ Len(out) = OutLen
        /\ \A i \in 1..PendingBefore : out[i] = audio_call.before[i]
        /\ \A i \in (PendingBefore + 1)..OutLen : out[i] = 0
        /\ samples = <<>>
        /\ audio_call.status = "ok"

C2_Witness ==
    /\ CallbackRan
    /\ PendingBefore > 0
    /\ PendingBefore + 1 < OutLen
    /\ out[PendingBefore] # 0
    /\ out[OutLen] = 0

\* C3: the audio callback drains from the front.  After a callback on a
\* device buffer of length L that found P >= L pending samples, out holds
\* exactly the first L pending samples in order (none replaced by zero) and
\* the pending buffer holds exactly the other P - L, in their order.
C3_DrainFront ==
    (CallbackRan /\ PendingBefore >= OutLen) =>
        /\ Len(out) = OutLen
        /\ \A i \in 1..OutLen : out[i] = audio_call.before[i] /\ out[i] # 0
        /\ Len(samples) = PendingBefore - OutLen
        /\ \A j \in 1..(PendingBefore - OutLen) :
              samples[j] = audio_call.before[OutLen + j]

C3_Witness ==
    /\ CallbackRan
    /\ OutLen >= 2
    /\ PendingBefore >= OutLen + 2
    /\ Len(samples) >= 2

\* C4: enqueue_audio_samples.  Given at least C = min(device channels, 2)
\* input channels of N samples each, the call succeeds, appends exactly
\* N*C samples after those pending, leaves the pending ones as they were,
\* and the appended block interleaves the first C input channels:
\* appended[i*C + c] = input[c][i]; channels beyond the second are dropped.
C4_Enqueue ==
    LET C == Min(audio_renderer.v.channels, 2)
        input == audio_call.input
        N == Len(input[1])
        base == Len(audio_call.before)
    IN  (audio_call.op = "enqueue" /\ Len(audio_call.input) >= C) =>
            /\ audio_renderer.v.channels = Min(audio_track.v.channels, 2)
            /\ audio_call.status = "ok"
            /\ Len(samples) = base + N * C
            /\ SubSeq(samples, 1, base) = audio_call.before
            /\ \A i \in 0..(N - 1) : \A c \in 0..(C - 1) :
                  samples[base + i * C + c + 1] = input[c + 1][i + 1]

C4_Witness ==
    /\ audio_call.op = "enqueue"
    /\ audio_call.status = "ok"
    /\ audio_track.v.channels > 2
    /\ Len(audio_call.input) > 2
    /\ Len(audio_call.input[1]) >= 2
    /\ audio_call.before # <<>>
    /\ Len(samples) = Len(audio_call.before) + 2 * Len(audio_call.input[1])

(***************************************************************************)
(* Properties of the format adapter (checked under SpecFormat).            *)
(***************************************************************************)
\* C5: from_video_track maps every native pixel format to one of exactly
\* two outputs: I420 and NV12 to planar YUV (I420 / IYUV), Indexed and Rgb24
\* to packed RGB (Rgb24 / RGB24); the media-side and the SDL-side formats
\* agree.
C5_TwoOutputs ==
    video_format.some =>
        LET native == video_track.v.pixel_format
            mapped == <<video_format.v.media_pixel_format,
                        video_format.v.sdl_pixel_format>>
        IN  /\ mapped \in {<<"I420", "IYUV">>, <<"Rgb24", "RGB24">>}
            /\ native \in {"I420", "NV12"} => mapped = <<"I420", "IYUV">>
            /\ native \in {"Indexed", "Rgb24"} => mapped = <<"Rgb24", "RGB24">>

C5_Witness ==
    /\ video_format.some
    /\ video_track.v.pixel_format = "NV12"
    /\ video_format.v.sdl_pixel_format = "IYUV"

\* C6: for every u16 native width w the SDL width is w rounded down to an
\* even value: it is even, it is at most w, and w minus it is 0 for an even
\* w and 1 for an odd w (width 1 gives 0).
C6_EvenWidth ==
    video_format.some =>
        LET w == video_track.v.width
            a == video_format.v.sdl_width
        IN  /\ a % 2 = 0
            /\ 0 <= a /\ a <= w
            /\ w - a = w % 2
            /\ w = 1 => a = 0

C6_Witness ==
    /\ video_format.some
    /\ video_track.v.width = U16Max
    /\ video_format.v.sdl_width = U16Max - 1

(***************************************************************************)
(* Properties of the output-plane layout (checked under SpecVideo).        *)
(***************************************************************************)
Stride == output_stride
Height == video_track.v.height
PlanarYuv == video_track.v.pixel_format \in {"I420", "NV12"}
LumaSize == Stride * Height
ChromaSize == (Stride \div 2) * (Height \div 2)

\* the planes are contiguous, start at 0 and end at `len`
CoverExactly(planes, len) ==
    /\ planes # <<>>
    /\ planes[1].start = 0
    /\ \A k \in 1..(Len(planes) - 1) :
          planes[k + 1].start = planes[k].start + planes[k].len
    /\ planes[Len(planes)].start + planes[Len(planes)].len = len
    /\ \A k \in 1..Len(planes) : planes[k].len >= 0

\* C7: for a planar-YUV mapping with stride S and height H, upload makes
\* the buffer S*H + 2*((S/2)*(H/2)) long and upload_image splits it into
\* three contiguous sub-ranges that cover it exactly: luma of S*H, then U
\* and V of (S/2)*(H/2) each, with strides S, S/2, S/2; for a packed-RGB
\* mapping the single plane has size S*H.
C7_PlaneLayout ==
    upload_caller = "upload" =>
        /\ upload_status = "converted"
        /\ CoverExactly(output_planes, output_pixels.v)
        /\ IF PlanarYuv
           THEN /\ output_pixels.v = LumaSize + 2 * ChromaSize
                /\ Len(output_planes) = 3
                /\ output_planes[1].len = LumaSize
                /\ output_planes[2].len = ChromaSize
                /\ output_planes[3].len = ChromaSize
                /\ output_strides = <<Stride, Stride \div 2, Stride \div 2>>
           ELSE /\ output_pixels.v = LumaSize
                /\ Len(output_planes) = 1
                /\ output_planes[1].len = LumaSize
                /\ output_strides = <<Stride>>

C7_Witness ==
    /\ upload_caller = "upload"
    /\ video_track.v.pixel_format = "NV12"
    /\ Stride = 5 /\ Height = 3
    /\ output_pixels = Some(19)
    /\ output_planes = <<Plane(0, 15), Plane(15, 2), Plane(17, 2)>>

\* the length the target format needs
Required == IF PlanarYuv THEN LumaSize + 2 * ChromaSize ELSE LumaSize

DirectCall == upload_caller = "direct"

YieldedTicks == [k \in 1..Len(yielded) |-> yielded[k].ticks]

\* the frame carries a payload for every renderer that exists
Complete(f) ==
    /\ video_renderer.some => f.video_frame
    /\ audio_renderer.some => f.audio_samples.some

IsPrefix(s, t) == Len(s) <= Len(t) /\ s = SubSeq(t, 1, Len(s))

ButLast(s) == SubSeq(s, 1, Len(s) - 1)

\* the exits that are not the decoder's end of stream and not a failure of
\* the loop on a frame: too few arguments or no file, a quit or escape
\* event, a frame that decode_frame announced and advance did not deliver,
\* a decode that made no frame available
OtherExits == {"usage", "panic_open", "quit", "advance_err", "panic_no_next_frame"}

C9_Clock ==
    media_player.some =>
        LET ref_ticks == media_player.v.playback_start_ticks
            ref_time == media_player.v.playback_start_wallclock_time
        IN  /\ clock_op.op \in {"new", "resync"}
            /\ ref_time = clock_op.at
            /\ ref_time <= now
            /\ clock_op.op = "new" => ref_ticks = 0
            /\ clock_op.op = "resync" =>
                  /\ ref_ticks = clock_op.ticks
                  /\ TargetTime(media_player.v, clock_op.ticks) = ref_time
            /\ pc = "sleep" =>
                  target_time.v = ref_time + (next_frame.v.ticks - ref_ticks) * NsPerTick

\* a frame waits for a target computed from a resynchronised clock
C9_Witness ==
    /\ pc = "sleep"
    /\ clock_op.op = "resync"
    /\ clock_op.ticks > 0
    /\ media_player.v.playback_start_ticks = clock_op.ticks
    /\ media_player.v.playback_start_wallclock_time > 0
    /\ target_time.v > media_player.v.playback_start_wallclock_time

\* C10: started with fewer than 3 arguments (the program's name included)
\* the process prints the usage line and ends: it initialises nothing,
\* opens no file, creates no player, window or audio device and decodes
\* nothing.
C10_UsageOnly ==
    args_len < 3 =>
        /\ pc \in {"start", "done"}
        /\ inited \subseteq {"usage"}
        /\ media_player = None /\ video_renderer = None /\ audio_renderer = None
        /\ yielded = <<>> /\ processed = <<>> /\ presented = <<>> /\ enqueued = <<>>
        /\ units_left = MaxUnits
        /\ pc = "done" => (exit = "usage" /\ inited = {"usage"})

C10_Witness ==
    /\ args_len = 2
    /\ pc = "done"
    /\ exit = "usage"
    /\ inited = {"usage"}

Range(s) == {s[i] : i \in 1..Len(s)}

PollEntries == EventKinds \cup {"None"}

\* C11: a failure of decode_frame or of advance ends playback with no
\* retry: the failure is the last thing the loop does (no decode, wait,
\* advance, present, enqueue or event poll follows it); a failed decode is
\* the only step of its cycle; when advance fails after a successful
\* decode, the cycle has decoded, computed the target and waited, and the
\* decoded frame is neither processed, presented nor enqueued and no event
\* is polled.
C11_NoRetry ==
    /\ \A i \in 1..Len(cycle) :
          cycle[i] \in {"decode_err", "advance_err"} =>
             /\ i = Len(cycle)
             /\ pc = "done" /\ exit = cycle[i]
             /\ ~ENABLED MainThread
    /\ exit = "decode_err" => cycle = <<"decode_err">>
    /\ exit = "advance_err" =>
          /\ cycle = <<"decode_ok", "target", "sleep", "advance_err">>
          /\ next_frame.some
          /\ next_frame.v.ticks \notin
                Range(processed) \cup Range(presented) \cup Range(enqueued)
          /\ Range(cycle) \cap PollEntries = {}

C11_Witness ==
    /\ exit = "advance_err"
    /\ Len(processed) >= 1
    /\ Len(yielded) = Len(processed) + 1
    /\ video_renderer.some /\ audio_renderer.some
    /\ presented = processed /\ enqueued = processed
    /\ events # <<>>

(***************************************************************************)
(* Properties of poll_events in the loop (checked under SpecLoop, where    *)
(* every event is queued before the first poll).                           *)
(***************************************************************************)
Terminating == {"Quit", "Escape"}

\* the events poll_events has taken from the queue in this cycle
Polled == SelectSeq(cycle, LAMBDA e : e \in EventKinds)

\* C12: once poll_events takes a Quit or an Escape key-down from the
\* queue it returns false and the loop stops: it is the last thing main
\* does (no decode, wait, advance, present or enqueue follows), the events
\* queued behind it stay in the queue unprocessed, and the clock is as the
\* events polled before it left it (resynchronised only if a resize was
\* polled before the terminating event, whatever is queued behind it).
C12_QuitStops ==
    /\ \A i \in 1..Len(cycle) :
          cycle[i] \in Terminating =>
             /\ i = Len(cycle)
             /\ pc = "done" /\ exit = "quit"
             /\ ~ENABLED MainThread
             /\ Len(events) = arrived - Len(Polled)
             /\ clock_op.op = "resync" <=> "Resized" \in Range(cycle)
             /\ clock_op.op = "new" =>
                   media_player.v = ExampleMediaPlayer_new(clock_op.at)
    /\ exit = "quit" => (cycle # <<>> /\ cycle[Len(cycle)] \in Terminating)

\* an Escape key-down polled with a resize still queued behind it
C12_Witness ==
    /\ exit = "quit"
    /\ Polled = <<"Escape">>
    /\ events = <<"Resized">>
    /\ clock_op.op = "new"
    /\ presented # <<>> /\ enqueued # <<>>

(***************************************************************************)
(* Properties of poll_events on its own (checked under SpecPoll).          *)
(***************************************************************************)
Resynced == "Resized" \in Range(cycle) /\ last_frame_presentation_time.some

\* C13: a window-resized event polled while the player has a last frame
\* sets the reference tick to that frame's tick and the reference time to
\* the monotonic time of that moment; polled while the player has no last
\* frame it leaves the clock as it was; every other event that does not
\* end the poll, and a poll that finds the queue empty, leave both clock
\* fields as they were.
C13_ResizeResyncs ==
    /\ Resynced =>
          /\ clock_op.op = "resync"
          /\ media_player.v.playback_start_ticks = last_frame_presentation_time.v
          /\ media_player.v.playback_start_wallclock_time = clock_op.at
          /\ clock_op.at <= now
          /\ cycle[Len(cycle)] = "Resized" =>
                media_player.v.playback_start_wallclock_time = now
    /\ ~Resynced =>
          /\ clock_op.op = "given"
          /\ media_player.v.playback_start_ticks = clock_op.ticks
          /\ media_player.v.playback_start_wallclock_time = clock_op.at

\* a resize polled after another event moved both fields of the clock
C13_Witness ==
    /\ cycle = <<"Other", "Resized">>
    /\ last_frame_presentation_time = Some(2)
    /\ clock_op.op = "resync"
    /\ media_player.v.playback_start_ticks = 2
    /\ media_player.v.playback_start_wallclock_time = now
    /\ now > 1

(***************************************************************************)
(* Pacing (checked under Spec).                                            *)
(***************************************************************************)
\* main has waited for this cycle's frame and has not polled events yet
Waited == pc \in {"advance", "present", "enqueue"}

\* the tick of the frame of this cycle
FrameTick == IF pc = "advance" THEN next_frame.v.ticks ELSE frame.v.ticks

\* the target instant of this cycle's frame, from the last new or resync
DueTime == clock_op.at + duration(FrameTick - clock_op.ticks)

\* nothing but the decode and the computation of the target precedes the
\* wait, and nothing happens during it
WaitIsAlone ==
    pc = "advance" => cycle = <<"decode_ok", "target", "sleep">>

\* C14 (as claimed): the loop blocks until the target instant before it
\* calls advance: no frame with tick F is advanced, presented or enqueued
\* at a time earlier than referenceWallClockTime + duration(F -
\* referenceTick) for the clock in force in the cycle (after a resync at t
\* to tick L: not before t + duration(F - L)), and no decode, present,
\* enqueue or event poll happens during the wait.
C14_NeverEarly ==
    /\ Waited =>
          /\ now >= TargetTime(media_player.v, FrameTick)
          /\ now >= DueTime
    /\ WaitIsAlone

\* C14 (amended): the wait is for the whole milliseconds of the time that
\* remains, so a frame is advanced, presented or enqueued less than one
\* millisecond before its target instant at the earliest; the rest as
\* claimed.
C14_EarlyByLessThanMs ==
    /\ Waited =>
          /\ now > TargetTime(media_player.v, FrameTick) - NsPerMs
          /\ now > DueTime - NsPerMs
          /\ target_time.v = DueTime
    /\ WaitIsAlone

\* after a resync, a frame is presented at its target instant, which the
\* thread had to wait for
C14_Witness ==
    /\ pc = "enqueue"
    /\ clock_op.op = "resync"
    /\ presented # <<>> /\ presented[Len(presented)] = FrameTick
    /\ FrameTick = clock_op.ticks + MaxTickStep
    /\ now = DueTime

(***************************************************************************)
(* What the loop does with what the player may leave out (checked under    *)
(* Spec).                                                                  *)
(***************************************************************************)
\* C15: when a successful decode_frame yields no displayable frame (the
\* player has no next-frame presentation time), the loop stays running and
\* starts the next cycle by decoding again: it computes no target, does
\* not wait, advance or present, and does not fail.
C15_DecodesAgain ==
    [][(pc = "target" /\ pc' # pc /\ ~next_frame.some) =>
          /\ pc' = "decode" /\ exit' = "none"
          /\ UNCHANGED <<target_time, now, frameVars>>]_vars

\* C16: the advanced frame's video payload is presented exactly when it
\* is there and its audio payload is enqueued exactly when it is there; a
\* frame without a video payload (or without an audio payload), the track
\* and the renderer existing, has that step skipped and the loop goes on
\* to the next step without a failure.
C16_PayloadsOptional ==
    [][/\ (pc = "present" /\ pc' # pc) =>
             /\ pc' = "enqueue" /\ exit' = "none"
             /\ presented' # presented <=> frame.v.video_frame
       /\ (pc = "enqueue" /\ pc' # pc) =>
             /\ pc' = "poll" /\ exit' = "none"
             /\ enqueued' # enqueued <=> frame.v.audio_samples.some]_vars

(***************************************************************************)
(* Properties of the pending buffer over a whole run (checked under        *)
(* SpecFifo).                                                              *)
(***************************************************************************)
OutputChannels == Min(audio_renderer.v.channels, 2)

\* the length of the interleaved block an input makes
BlockLen(input) == Len(input[1]) * OutputChannels

RECURSIVE SumLen(_)
SumLen(bs) == IF bs = <<>> THEN 0
              ELSE BlockLen(Head(bs)) + SumLen(Tail(bs))

\* C17: the producer is never blocked and never drops or truncates samples
\* because of the length of the pending buffer: an enqueue is possible
\* whatever that length is, and the pending length is what the enqueued
\* blocks b1..bk add up to, less what callbacks have taken; with no
\* callback having taken anything it is exactly b1 + ... + bk, which grows
\* with k without a cap.
C17_NoCap ==
    /\ Len(samples) = SumLen(blocks) - Len(drained)
    /\ drained = <<>> => Len(samples) = SumLen(blocks)
    /\ Len(blocks) < MaxBlocks => ENABLED Produce

\* the longest pending buffer the bounds allow: every block of full length
\* and nothing taken
C17_Witness ==
    /\ Len(blocks) = MaxBlocks
    /\ drained = <<>>
    /\ audio_track.v.channels > 2
    /\ Len(samples) = MaxBlocks * MaxCount * 2

\* the interleaved block of an input: sample i of channel c at i*C + c
Interleaved(input) ==
    [k \in 1..BlockLen(input) |->
        input[((k - 1) % OutputChannels) + 1][((k - 1) \div OutputChannels) + 1]]

RECURSIVE AllEnqueued(_)
AllEnqueued(bs) == IF bs = <<>> THEN <<>>
                   ELSE Interleaved(Head(bs)) \o AllEnqueued(Tail(bs))

\* C18: FIFO conservation under interleaving.  With each enqueue and each
\* callback atomic on the pending buffer, in every reachable state of
\* every interleaving the samples the callbacks have copied out of the
\* pending buffer (in callback order, the zero-fill of underruns left out)
\* followed by the pending buffer are the enqueued interleaved blocks in
\* enqueue order: no sample is lost, duplicated or reordered.
C18_Fifo == drained \o samples = AllEnqueued(blocks)

\* callbacks between the enqueues: samples of the first block taken, the
\* buffer drained once in between, samples of the last block pending
C18_Witness ==
    /\ Len(blocks) = MaxBlocks
    /\ Len(drained) >= 3
    /\ drained[1] = Sample(1, 1, 1)
    /\ drained[Len(drained)] >= Sample(2, 1, 1)
    /\ samples # <<>>
    /\ samples[1] >= Sample(MaxBlocks, 1, 1)
    /\ Len(out) > Len(samples)

(***************************************************************************)
(* The place of poll_events in the cycle (checked under SpecLoop).         *)
(***************************************************************************)
\* what a cycle does before it polls
Body ==
    <<"decode_ok", "target", "sleep", "advance_ok">>
        \o (IF video_renderer.some THEN <<"present">> ELSE <<>>)
        \o (IF audio_renderer.some THEN <<"enqueue">> ELSE <<>>)

\* C19: events are polled only after the cycle's decode, wait, advance,
\* present and enqueue, in one poll per cycle that takes events from the
\* queue until it is empty (the cycle is then over, with everything that
\* was queued handled) or a terminating event is found; so a quit or
\* escape that is queued when playback starts is acted on only after the
\* first frame has been waited for, presented and enqueued, and a cycle
\* whose decode or advance fails polls nothing and leaves the queue as it
\* was.
C19_PollLast ==
    /\ \A i \in 1..Len(cycle) :
          cycle[i] \in PollEntries =>
             /\ i > Len(Body)
             /\ SubSeq(cycle, 1, Len(Body)) = Body
             /\ \A j \in (Len(Body) + 1)..i : cycle[j] \in PollEntries
             /\ cycle[i] \in Terminating \cup {"None"} => i = Len(cycle)
    /\ (pc = "decode" /\ cycle # <<>>) =>
          /\ cycle[Len(cycle)] = "None"
          /\ events = <<>>
          /\ Len(processed) = 1 => Len(Polled) = arrived
    /\ exit = "quit" =>
          /\ processed # <<>>
          /\ presented = processed /\ enqueued = processed
          /\ SubSeq(cycle, 1, Len(Body)) = Body
    /\ exit \in {"decode_err", "advance_err"} =>
          /\ Range(cycle) \cap PollEntries = {}
          /\ processed = <<>> => Len(events) = arrived

\* a quit queued before the first decode, behind a resize: both are polled
\* at the end of the first cycle, after its frame
C19_Witness ==
    /\ exit = "quit"
    /\ arrived = 2
    /\ cycle = Body \o <<"Resized", "Quit">>
    /\ Len(processed) = 1
    /\ presented = processed /\ enqueued = processed
    /\ clock_op.op = "resync"

====
